---------------------------- MODULE Spec2Model ----------------------------
(***************************************************************************)
(* midi-agent: the sparse position resolver (DslResponse.get_midi_events,  *)
(* src/midiagent/ai.py), the realtime dispatch loop (play_midi,            *)
(* src/midiagent/midi_playback.py) and the MIDI output widget              *)
(* (MidiWidget, src/midiagent/midi_widget.py), and the notes handler of   *)
(* the notebook's widget (src/notebook.py).                                *)
(*                                                                         *)
(* Time is counted in whole milliseconds.  An event object is referred to  *)
(* by its index in `events`, the way the Python list `batch` holds          *)
(* references to the objects of `events`.                                  *)
(***************************************************************************)
EXTENDS Integers, Sequences, FiniteSets, TLC

VARIABLES
    \* ---- play_midi ----
    bpm,            \* argument bpm
    time_signature, \* argument time_signature
    events,         \* argument events : list[MidiEvent]
    started_at,     \* local started_at = time.time()
    now,            \* the latest reading of time.time()
    idx,            \* local idx (0-based cursor; events[idx] is events[idx+1] here)
    event_time,     \* local event_time (-1 before the first iteration assigns it)
    batch,          \* local batch, as indices into events
    pc,             \* "loop" while inside the while loop, "done" after it
    flushed,        \* every assignment made to midi.events, in order
    samples,        \* the elapsed values computed at line 14 so far
    tick,           \* which branch the latest loop iteration took
    yields,         \* number of sleep/yield calls executed by play_midi
    cancel,         \* an external cancellation request has been issued
    \* ---- DslResponse.get_midi_events ----
    dsl,            \* self.dsl : list[SparseMidiEvent]
    result,         \* local result : list[MidiEvent]
    measure,        \* running measure
    beat,           \* running beat
    beat_div4,      \* running beat_div4
    beat_div16,     \* running beat_div16
    rpc,            \* "loop" while iterating self.dsl, "done" after return
    \* ---- MidiWidget ----
    py_events,      \* the trait midi.events as held by the Python object
    sync_out,       \* every state update sent from Python to the front end
    front_read,     \* how many entries of sync_out the front end has applied
    js_events,      \* model.get("events") in the front end
    output,         \* the front end's `output` is set (an output is selected)
    sent,           \* every message passed to output.send, in order
    js_log,         \* every string passed to log(), in order
    sync_in,        \* every `events` update sent from the front end to Python
    py_read,        \* how many entries of sync_in Python has applied
    \* ---- notebook MidiWidget (change:notes) ----
    notes,          \* model.get("notes") in the front end
    npc,            \* "pending" until the change:notes handler has run
    nb_output,      \* the notebook widget's `output` is set
    timers,         \* the setTimeout callbacks waiting to run
    js_now,         \* front-end time in ms since the handler ran
    note_sent,      \* every message passed to output.send, with its time
    nb_log          \* every string passed to log(), in order

vars == <<bpm, time_signature, events, started_at, now, idx, event_time, batch,
          pc, flushed, samples, tick, yields, cancel,
          dsl, result, measure, beat, beat_div4, beat_div16, rpc,
          py_events, sync_out, front_read, js_events, output, sent, js_log,
          sync_in, py_read,
          notes, npc, nb_output, timers, js_now, note_sent, nb_log>>

notesVars == <<notes, npc, nb_output, timers, js_now, note_sent, nb_log>>

playVars == <<bpm, time_signature, events, started_at, now, idx, event_time,
              batch, pc, flushed, samples, tick, yields, cancel>>

resolveVars == <<dsl, result, measure, beat, beat_div4, beat_div16, rpc>>

widgetVars == <<py_events, sync_out, front_read, js_events, output, sent, js_log,
                sync_in, py_read>>

---------------------------------------------------------------------------
(* Bounds of the model *)

MaxEvents == 4

MaxRecords == 2

MaxTimedEvents == 2

MaxWidgetEvents == 3

---------------------------------------------------------------------------
(* Generic helpers *)

RECURSIVE Flatten(_)
Flatten(ss) == IF ss = <<>> THEN <<>> ELSE Head(ss) \o Flatten(Tail(ss))

SeqsUpTo(S, n) == UNION {[1..k -> S] : k \in 0..n}

Iota(n) == [i \in 1..n |-> i]

---------------------------------------------------------------------------
(* MidiEvent and the time conversion used by play_midi *)

MidiEvent(m, b, d4, d16, ev, val) ==
    [measure |-> m, beat |-> b, beat_div4 |-> d4, beat_div16 |-> d16,
     event |-> ev, value |-> val]

\* Faulty variant of PositionSixteenths for C16: a measure lasts
\* numerator * 4 / denominator beats.
PositionSixteenthsByDenominator(e, ts) ==
      (((e.measure - 1) * ts.numerator * 16 * 4) \div ts.denominator)
    + (e.beat - 1) * 16
    + (e.beat_div4 - 1) * 4
    + (e.beat_div16 - 1)

\* Position of an event in sixteenths of a beat from the start of the piece.
PositionSixteenths(e, ts) ==
      (e.measure - 1) * ts.numerator * 16
    + (e.beat - 1) * 16
    + (e.beat_div4 - 1) * 4
    + (e.beat_div16 - 1)

\* event.timestamp(bpm, time_signature), in whole milliseconds: one sixteenth
\* of a beat lasts (60 / bpm) / 16 seconds = 3750 / bpm milliseconds.
Timestamp(e, b, ts) == (PositionSixteenths(e, ts) * 3750) \div b

---------------------------------------------------------------------------
(* Inputs of play_midi *)

BpmValues == {75}

TimeSignatures == {[numerator |-> 4, denominator |-> 4]}

\* Resolved positions the event lists are drawn from; at 75 bpm they are due
\* at 0 ms, 50 ms and 200 ms.
EventPositions ==
    { MidiEvent(1, 1, 1, 1, "C4", 100),
      MidiEvent(1, 1, 1, 2, "E4", 100),
      MidiEvent(1, 1, 2, 1, "G4", 100) }

StartValues == {0, 1000}

\* Elapsed times at which time.time() may be read.
ElapsedValues == {0, 50, 60, 200, 250}

---------------------------------------------------------------------------
(* Event encoder: event.payload() *)

\* MIDI note numbers of the note names used here (A4 = 69).
NoteNumber == [C4 |-> 60, E4 |-> 64, G4 |-> 67]

\* Controller numbers of the named controllers.
ControllerNumber == [Sustain |-> 64, ModWheel |-> 1]

\* The descriptor is a known note name or a known controller.
Encodable(e) == e.event \in DOMAIN NoteNumber \cup DOMAIN ControllerNumber

\* round(value * 127 / 100)
ScaleValue(v) == (v * 127 + 50) \div 100

\* event.payload(): note-on 0x90 | channel 0, or control change 0xB0 | channel 0
Payload(e) ==
    IF e.event \in DOMAIN NoteNumber
    THEN <<144, NoteNumber[e.event], ScaleValue(e.value)>>
    ELSE <<176, ControllerNumber[e.event], ScaleValue(e.value)>>

---------------------------------------------------------------------------
(* The synced trait MidiWidget.events *)

\* traitlets notifies (and the widget sends a state update) only when the
\* assigned value differs from the value the trait holds.
TraitNotifies(old, new) == old # new

NotesIdle ==
    /\ notes = <<>>
    /\ npc = "done"
    /\ nb_output = FALSE
    /\ timers = {}
    /\ js_now = 0
    /\ note_sent = <<>>
    /\ nb_log = <<>>

WidgetIdle ==
    /\ py_events = <<>>
    /\ sync_out = <<>>
    /\ front_read = 0
    /\ js_events = <<>>
    /\ output = FALSE
    /\ sent = <<>>
    /\ js_log = <<>>
    /\ sync_in = <<>>
    /\ py_read = 0

---------------------------------------------------------------------------
(* play_midi *)

Elapsed(t) == t - started_at

EventTime(i) == Timestamp(events[i], bpm, time_signature)

\* Faulty variant of Due for C3: an event counts as due 50 ms early.
DueEarly(offset, elapsed) == offset <= elapsed + 50

\* line 16: event_time <= elapsed
Due(offset, elapsed) == offset <= elapsed

\* Faulty variant of BatchReady for C5: `else` in place of `elif batch`.
BatchReadyAlways(b) == TRUE

\* line 19: elif batch
BatchReady(b) == b # <<>>

\* Faulty variant of AppendEvent for C4: batch.insert(0, event).
AppendEventFront(b, i) == <<i>> \o b

\* line 18: batch.append(event)
AppendEvent(b, i) == Append(b, i)

\* Faulty variant of NextIdx for C17: the cursor skips an event.
NextIdxSkip(i) == i + 2

\* line 17: idx += 1
NextIdx(i) == i + 1

\* The values time.time() may return at line 14.  The clock is taken to run
\* forwards: each iteration requires its reading t to satisfy t >= now.
ClockReadings == {started_at + d : d \in ElapsedValues}

ResolverIdle ==
    /\ dsl = <<>> /\ result = <<>>
    /\ measure = 1 /\ beat = 1 /\ beat_div4 = 1 /\ beat_div16 = 1
    /\ rpc = "done"

InitPlay ==
    /\ bpm \in BpmValues
    /\ time_signature \in TimeSignatures
    /\ events \in SeqsUpTo(EventPositions, MaxEvents)
    /\ started_at \in StartValues
    /\ now = started_at
    /\ idx = 0
    /\ event_time = -1
    /\ batch = <<>>
    /\ pc = "loop"
    /\ flushed = <<>>
    /\ samples = {}
    /\ tick = "none"
    /\ yields = 0
    /\ cancel = FALSE
    /\ ResolverIdle
    /\ NotesIdle
    /\ WidgetIdle

\* lines 12-18: the head event is due at this sample: consume it
Consume(t) ==
    /\ pc = "loop"
    /\ idx < Len(events)
    /\ t >= now
    /\ Due(EventTime(idx + 1), Elapsed(t))
    /\ now' = t
    /\ samples' = samples \cup {Elapsed(t)}
    /\ event_time' = EventTime(idx + 1)
    /\ idx' = NextIdx(idx)
    /\ batch' = AppendEvent(batch, idx + 1)
    /\ tick' = "consume"
    /\ UNCHANGED <<bpm, time_signature, events, started_at, pc, flushed, yields, cancel>>
    /\ UNCHANGED resolveVars
    /\ UNCHANGED notesVars
    /\ UNCHANGED widgetVars

\* line 20: [event.payload() for event in batch]
BatchPayloads == [j \in 1..Len(batch) |-> Payload(events[batch[j]])]

\* lines 12-16, 19-21: the head event is in the future and the batch is
\* non-empty: assign the payloads of the batch to midi.events (which sends a
\* state update to the front end when the trait's value changes) and clear
\* the batch
Flush(t) ==
    /\ pc = "loop"
    /\ idx < Len(events)
    /\ t >= now
    /\ ~Due(EventTime(idx + 1), Elapsed(t))
    /\ BatchReady(batch)
    /\ \A j \in 1..Len(batch) : Encodable(events[batch[j]])
    /\ py_events' = BatchPayloads
    /\ sync_out' = IF TraitNotifies(py_events, BatchPayloads)
                   THEN Append(sync_out, BatchPayloads) ELSE sync_out
    /\ now' = t
    /\ samples' = samples \cup {Elapsed(t)}
    /\ event_time' = EventTime(idx + 1)
    /\ flushed' = Append(flushed, [batch |-> batch, at |-> Elapsed(t)])
    /\ batch' = <<>>
    /\ tick' = "flush"
    /\ UNCHANGED <<bpm, time_signature, events, started_at, idx, pc, yields, cancel>>
    /\ UNCHANGED resolveVars
    /\ UNCHANGED notesVars
    /\ UNCHANGED <<front_read, js_events, output, sent, js_log, sync_in, py_read>>

\* lines 12-16, 19-20: as Flush, but event.payload() raises for an event of
\* the batch: the exception leaves the list comprehension and play_midi;
\* nothing is assigned to midi.events
FlushRaises(t) ==
    /\ pc = "loop"
    /\ idx < Len(events)
    /\ t >= now
    /\ ~Due(EventTime(idx + 1), Elapsed(t))
    /\ BatchReady(batch)
    /\ \E j \in 1..Len(batch) : ~Encodable(events[batch[j]])
    /\ now' = t
    /\ samples' = samples \cup {Elapsed(t)}
    /\ event_time' = EventTime(idx + 1)
    /\ tick' = "raise"
    /\ pc' = "raised"
    /\ UNCHANGED <<bpm, time_signature, events, started_at, idx, batch, flushed,
                   yields, cancel>>
    /\ UNCHANGED resolveVars
    /\ UNCHANGED notesVars
    /\ UNCHANGED widgetVars

\* lines 12-16, 19: the head event is in the future and the batch is empty:
\* the iteration does nothing and the loop goes straight to the next sample
Spin(t) ==
    /\ pc = "loop"
    /\ idx < Len(events)
    /\ t >= now
    /\ ~Due(EventTime(idx + 1), Elapsed(t))
    /\ ~BatchReady(batch)
    /\ now' = t
    /\ samples' = samples \cup {Elapsed(t)}
    /\ event_time' = EventTime(idx + 1)
    /\ tick' = "spin"
    /\ UNCHANGED <<bpm, time_signature, events, started_at, idx, batch, pc,
                   flushed, yields, cancel>>
    /\ UNCHANGED resolveVars
    /\ UNCHANGED notesVars
    /\ UNCHANGED widgetVars

\* line 12: idx < len(events) is false: the loop ends and play_midi returns
Return ==
    /\ pc = "loop"
    /\ idx >= Len(events)
    /\ pc' = "done"
    /\ UNCHANGED <<bpm, time_signature, events, started_at, now, idx, event_time,
                   batch, flushed, samples, tick, yields, cancel>>
    /\ UNCHANGED resolveVars
    /\ UNCHANGED notesVars
    /\ UNCHANGED widgetVars

\* An external cancellation request issued while play_midi is running.
RequestCancel ==
    /\ pc = "loop"
    /\ ~cancel
    /\ cancel' = TRUE
    /\ UNCHANGED <<bpm, time_signature, events, started_at, now, idx, event_time,
                   batch, pc, flushed, samples, tick, yields>>
    /\ UNCHANGED resolveVars
    /\ UNCHANGED notesVars
    /\ UNCHANGED widgetVars

NextPlay ==
    \/ \E t \in ClockReadings : Consume(t)
    \/ \E t \in ClockReadings : Flush(t)
    \/ \E t \in ClockReadings : Spin(t)
    \/ Return
    \/ RequestCancel

Spec == InitPlay /\ [][NextPlay]_vars

\* play_midi with a clock that keeps advancing: a reading at or past the
\* head event's offset is eventually taken, and the loop test is eventually run.
SpecFair ==
    /\ InitPlay
    /\ [][NextPlay]_vars
    /\ WF_vars(\E t \in ClockReadings : Consume(t))
    /\ WF_vars(Return)

\* Event lists that may hold an event whose descriptor the encoder does not
\* know ("H9", due at 50 ms).
EncodePositions ==
    EventPositions \cup { MidiEvent(1, 1, 1, 2, "H9", 100) }

InitEncode ==
    /\ bpm \in BpmValues
    /\ time_signature \in TimeSignatures
    /\ events \in SeqsUpTo(EncodePositions, MaxEvents)
    /\ started_at \in StartValues
    /\ now = started_at
    /\ idx = 0
    /\ event_time = -1
    /\ batch = <<>>
    /\ pc = "loop"
    /\ flushed = <<>>
    /\ samples = {}
    /\ tick = "none"
    /\ yields = 0
    /\ cancel = FALSE
    /\ ResolverIdle
    /\ NotesIdle
    /\ WidgetIdle

NextEncode ==
    \/ NextPlay
    \/ \E t \in ClockReadings : FlushRaises(t)

\* play_midi over event lists that may hold an event that cannot be encoded
SpecEncode == InitEncode /\ [][NextEncode]_vars

---------------------------------------------------------------------------
(* MidiWidget front end: render(), midi_widget.py 13-99 *)

\* The front-end state a handler run reads and writes.
FrontState == [js_events |-> js_events, sent |-> sent, js_log |-> js_log,
               sync_in |-> sync_in]

LogEntry(kind, n, msg) == [kind |-> kind, n |-> n, msg |-> msg]

\* lines 28-32: log(s).  (log also syncs the log trait to Python; the Python
\* copy of the log is not modelled.)
Log(w, entry) == [w EXCEPT !.js_log = Append(@, entry)]

\* model.save_changes() after model.set("events", ...): the front end's value
\* of events is sent to Python; `after` records how many messages had been
\* passed to output.send when it was sent.
SaveEvents(w) ==
    [w EXCEPT !.sync_in = Append(@, [events |-> w.js_events, after |-> Len(w.sent)])]

\* line 94: eventsToProcess.shift()
ShiftMessage(q) == Head(q)

\* lines 93-97: send the local copy front to back
RECURSIVE SendAll(_, _)
SendAll(w, q) ==
    IF q = <<>> THEN w
    ELSE LET msg == ShiftMessage(q)
         IN SendAll(Log([w EXCEPT !.sent = Append(@, msg)],
                        LogEntry("Sent MIDI", 1, msg)),
                    Tail(q))

RECURSIVE OnChangeEvents(_)

\* model.set("events", v): the change:events handler runs, inside the call,
\* when the value changes
SetEvents(w, v) ==
    IF v = w.js_events THEN w ELSE OnChangeEvents([w EXCEPT !.js_events = v])

\* Faulty variant of ClearQueue for C18: the queue is not cleared.
ClearQueueMissing(w) == w

\* lines 82-83 and 89-90: model.set("events", []); model.save_changes()
ClearQueue(w) == SaveEvents(SetEvents(w, <<>>))

\* lines 74-98: the change:events handler
OnChangeEvents(w) ==
    IF w.js_events = <<>> THEN w
    ELSE LET evts == w.js_events
             w1 == Log(w, LogEntry("Received", Len(evts), <<>>))
         IN IF ~output
            THEN ClearQueue(Log(w1, LogEntry("No MIDI output selected.", 0, <<>>)))
            ELSE SendAll(ClearQueue(w1), evts)

\* The front end applies the next state update from Python.
FrontendReceive ==
    /\ front_read < Len(sync_out)
    /\ front_read' = front_read + 1
    /\ LET w == SetEvents(FrontState, sync_out[front_read + 1])
       IN /\ js_events' = w.js_events
          /\ sent' = w.sent
          /\ js_log' = w.js_log
          /\ sync_in' = w.sync_in
    /\ UNCHANGED <<py_events, sync_out, output, py_read>>
    /\ UNCHANGED playVars
    /\ UNCHANGED resolveVars
    /\ UNCHANGED notesVars

\* Python applies the next update of events sent by the front end.
PyReceive ==
    /\ py_read < Len(sync_in)
    /\ py_read' = py_read + 1
    /\ py_events' = sync_in[py_read + 1].events
    /\ UNCHANGED <<sync_out, front_read, js_events, output, sent, js_log, sync_in>>
    /\ UNCHANGED playVars
    /\ UNCHANGED resolveVars
    /\ UNCHANGED notesVars

\* Events played through the widget: the same note twice, then another.
WidgetPositions ==
    { MidiEvent(1, 1, 1, 1, "C4", 100),
      MidiEvent(1, 1, 1, 2, "C4", 100),
      MidiEvent(1, 1, 2, 1, "G4", 100) }

InitWidget ==
    /\ bpm \in BpmValues
    /\ time_signature \in TimeSignatures
    /\ events \in SeqsUpTo(WidgetPositions, MaxWidgetEvents)
    /\ started_at = 0
    /\ now = started_at
    /\ idx = 0
    /\ event_time = -1
    /\ batch = <<>>
    /\ pc = "loop"
    /\ flushed = <<>>
    /\ samples = {}
    /\ tick = "none"
    /\ yields = 0
    /\ cancel = FALSE
    /\ ResolverIdle
    /\ NotesIdle
    /\ py_events = <<>>
    /\ sync_out = <<>>
    /\ front_read = 0
    /\ js_events = <<>>
    /\ output \in BOOLEAN
    /\ sent = <<>>
    /\ js_log = <<>>
    /\ sync_in = <<>>
    /\ py_read = 0

NextWidget == NextPlay \/ FrontendReceive \/ PyReceive

\* play_midi feeding the widget, with every interleaving of the dispatcher,
\* the front end and the updates travelling between them
SpecWidget == InitWidget /\ [][NextWidget]_vars

---------------------------------------------------------------------------
\* Tempos, time signatures and positions on which the time conversion is run.
TimedBpmValues == {75, 120}

TimedSignatures ==
    { [numerator |-> 3, denominator |-> 4], [numerator |-> 4, denominator |-> 4],
      [numerator |-> 4, denominator |-> 8], [numerator |-> 6, denominator |-> 8] }

TimedPositions ==
    { MidiEvent(1, 1, 1, 1, "C4", 100), MidiEvent(1, 1, 1, 2, "C4", 100),
      MidiEvent(1, 1, 2, 1, "C4", 100), MidiEvent(1, 2, 1, 1, "C4", 100),
      MidiEvent(2, 1, 1, 1, "C4", 100), MidiEvent(3, 8, 8, 8, "C4", 100) }

InitTimed ==
    /\ bpm \in TimedBpmValues
    /\ time_signature \in TimedSignatures
    /\ events \in SeqsUpTo(TimedPositions, MaxTimedEvents)
    /\ started_at \in StartValues
    /\ now = started_at
    /\ idx = 0
    /\ event_time = -1
    /\ batch = <<>>
    /\ pc = "loop"
    /\ flushed = <<>>
    /\ samples = {}
    /\ tick = "none"
    /\ yields = 0
    /\ cancel = FALSE
    /\ ResolverIdle
    /\ NotesIdle
    /\ WidgetIdle

\* play_midi over the wider range of tempos, signatures and positions
SpecTimed == InitTimed /\ [][NextPlay]_vars

MaxOrderedEvents == 2

\* Positions whose ranks reach the upper end of their declared range
\* (ai.py 37-40: beat, beat_div4 and beat_div16 each go up to 8).
OrderedPositions ==
    { MidiEvent(1, 1, 1, 1, "C4", 100), MidiEvent(1, 1, 1, 8, "C4", 100),
      MidiEvent(1, 1, 2, 1, "C4", 100), MidiEvent(1, 1, 8, 1, "C4", 100),
      MidiEvent(1, 2, 1, 1, "C4", 100), MidiEvent(1, 8, 1, 1, "C4", 100),
      MidiEvent(2, 1, 1, 1, "C4", 100) }

OrderedSignatures ==
    { [numerator |-> 3, denominator |-> 4], [numerator |-> 4, denominator |-> 4],
      [numerator |-> 8, denominator |-> 8] }

InitOrdered ==
    /\ bpm \in BpmValues
    /\ time_signature \in OrderedSignatures
    /\ events \in SeqsUpTo(OrderedPositions, MaxOrderedEvents)
    /\ started_at = 0
    /\ now = started_at
    /\ idx = 0
    /\ event_time = -1
    /\ batch = <<>>
    /\ pc = "loop"
    /\ flushed = <<>>
    /\ samples = {}
    /\ tick = "none"
    /\ yields = 0
    /\ cancel = FALSE
    /\ ResolverIdle
    /\ NotesIdle
    /\ WidgetIdle

\* play_midi on lists of positions over the whole declared range of ranks
SpecOrdered == InitOrdered /\ [][NextPlay]_vars

---------------------------------------------------------------------------
(* DslResponse.get_midi_events *)

\* An omitted timing field (Python None).
None == 0

SparseMidiEvent(m, b, d4, d16, ev, val) ==
    [measure |-> m, beat |-> b, beat_div4 |-> d4, beat_div16 |-> d16,
     event |-> ev, value |-> val]

MeasureValues == {1, 2}
BeatValues == {1, 3}
Div4Values == {1, 2}
Div16Values == {1, 2}

\* Validated sparse records the dsl lists are drawn from.
SparseRecords ==
    { SparseMidiEvent(m, b, d4, d16, "C4", 100) :
        m \in {None} \cup MeasureValues, b \in {None} \cup BeatValues,
        d4 \in {None} \cup Div4Values, d16 \in {None} \cup Div16Values }

\* The running state of the loop, as a record of the four locals.
Running == [measure |-> measure, beat |-> beat,
            beat_div4 |-> beat_div4, beat_div16 |-> beat_div16]

\* Faulty variant of Overrides for C10: `if item.f:` without the comparison.
OverridesWhenPresent(field, running) == field # None

\* `item.f and item.f != f`: the field is present and differs from the
\* running value
Overrides(field, running) == field # None /\ field # running

\* Faulty variant of ApplyMeasure for C11: the lower ranks are reset to 0.
ApplyMeasureResetZero(s, item) ==
    IF Overrides(item.measure, s.measure)
    THEN [measure |-> item.measure, beat |-> 0, beat_div4 |-> 0, beat_div16 |-> 0]
    ELSE s

\* lines 83-87
ApplyMeasure(s, item) ==
    IF Overrides(item.measure, s.measure)
    THEN [measure |-> item.measure, beat |-> 1, beat_div4 |-> 1, beat_div16 |-> 1]
    ELSE s

\* Faulty variant of ApplyBeat for C9: the lower ranks are not reset.
ApplyBeatKeepLower(s, item) ==
    IF Overrides(item.beat, s.beat) THEN [s EXCEPT !.beat = item.beat] ELSE s

\* lines 88-91
ApplyBeat(s, item) ==
    IF Overrides(item.beat, s.beat)
    THEN [s EXCEPT !.beat = item.beat, !.beat_div4 = 1, !.beat_div16 = 1]
    ELSE s

\* lines 92-94
ApplyDiv4(s, item) ==
    IF Overrides(item.beat_div4, s.beat_div4)
    THEN [s EXCEPT !.beat_div4 = item.beat_div4, !.beat_div16 = 1]
    ELSE s

\* lines 95-96
ApplyDiv16(s, item) ==
    IF Overrides(item.beat_div16, s.beat_div16)
    THEN [s EXCEPT !.beat_div16 = item.beat_div16]
    ELSE s

\* Faulty variant of Resolve for C22: the measure is compared last, after
\* the lower ranks were set.
ResolveMeasureLast(s, item) ==
    ApplyMeasure(ApplyDiv16(ApplyDiv4(ApplyBeat(s, item), item), item), item)

\* lines 83-96: the four updates of one loop iteration, in order
Resolve(s, item) ==
    ApplyDiv16(ApplyDiv4(ApplyBeat(ApplyMeasure(s, item), item), item), item)

PlayIdle ==
    /\ bpm \in BpmValues
    /\ time_signature \in TimeSignatures
    /\ events = <<>>
    /\ started_at = 0
    /\ now = 0
    /\ idx = 0
    /\ event_time = -1
    /\ batch = <<>>
    /\ pc = "done"
    /\ flushed = <<>>
    /\ samples = {}
    /\ tick = "none"
    /\ yields = 0
    /\ cancel = FALSE

InitResolve ==
    /\ dsl \in SeqsUpTo(SparseRecords, MaxRecords)
    /\ result = <<>>
    /\ measure = 1
    /\ beat = 1
    /\ beat_div4 = 1
    /\ beat_div16 = 1
    /\ rpc = "loop"
    /\ PlayIdle
    /\ NotesIdle
    /\ WidgetIdle

\* lines 82-98: one iteration of `for item in self.dsl`
ResolveItem ==
    /\ rpc = "loop"
    /\ Len(result) < Len(dsl)
    /\ LET item == dsl[Len(result) + 1]
           s == Resolve(Running, item)
       IN /\ measure' = s.measure
          /\ beat' = s.beat
          /\ beat_div4' = s.beat_div4
          /\ beat_div16' = s.beat_div16
          /\ result' = Append(result,
                 MidiEvent(s.measure, s.beat, s.beat_div4, s.beat_div16,
                           item.event, item.value))
    /\ UNCHANGED <<dsl, rpc>>
    /\ UNCHANGED playVars
    /\ UNCHANGED widgetVars
    /\ UNCHANGED notesVars

\* line 100: return result
ReturnResult ==
    /\ rpc = "loop"
    /\ Len(result) = Len(dsl)
    /\ rpc' = "done"
    /\ UNCHANGED <<dsl, result, measure, beat, beat_div4, beat_div16>>
    /\ UNCHANGED playVars
    /\ UNCHANGED widgetVars
    /\ UNCHANGED notesVars

NextResolve == ResolveItem \/ ReturnResult

SpecResolve == InitResolve /\ [][NextResolve]_vars

---------------------------------------------------------------------------
(* Validation of DslResponse (pydantic field constraints, ai.py 37-42, 72) *)

\* The field constraints of SparseMidiEvent: measure gt=0; beat, beat_div4 and
\* beat_div16 gt=0, lt=9; value gt=-1, lt=101; a timing field may be None.
Valid(r) ==
    /\ r.measure = None \/ r.measure > 0
    /\ r.beat = None \/ (r.beat > 0 /\ r.beat < 9)
    /\ r.beat_div4 = None \/ (r.beat_div4 > 0 /\ r.beat_div4 < 9)
    /\ r.beat_div16 = None \/ (r.beat_div16 > 0 /\ r.beat_div16 < 9)
    /\ r.value > -1 /\ r.value < 101

\* event/value pairs of the raw records; the last one is out of range.
RawPayloads == {<<"C4", 100>>, <<"Sustain", 0>>, <<"C4", 101>>}

\* Raw records as received from the generation model, before validation;
\* beat = 9 and value = 101 are out of range.
RawRecords ==
    { SparseMidiEvent(m, b, d4, d16, p[1], p[2]) :
        m \in {None, 2}, b \in {None, 1, 8, 9},
        d4 \in {None, 8}, d16 \in {None, 8}, p \in RawPayloads }

InitValidate ==
    /\ dsl \in SeqsUpTo(RawRecords, MaxRecords)
    /\ result = <<>>
    /\ measure = 1
    /\ beat = 1
    /\ beat_div4 = 1
    /\ beat_div16 = 1
    /\ rpc = "validate"
    /\ PlayIdle
    /\ NotesIdle
    /\ WidgetIdle

\* Construction of DslResponse(dsl=...): pydantic validates every item of the
\* list; one failing item raises ValidationError for the whole response, and
\* no DslResponse exists on which get_midi_events could be called.
Validate ==
    /\ rpc = "validate"
    /\ rpc' = IF \A k \in 1..Len(dsl) : Valid(dsl[k]) THEN "loop" ELSE "error"
    /\ UNCHANGED <<dsl, result, measure, beat, beat_div4, beat_div16>>
    /\ UNCHANGED playVars
    /\ UNCHANGED widgetVars
    /\ UNCHANGED notesVars

NextValidate == Validate \/ ResolveItem \/ ReturnResult

SpecValidate == InitValidate /\ [][NextValidate]_vars

---------------------------------------------------------------------------
(* Properties of play_midi *)

Ranks4(r) == <<r.measure, r.beat, r.beat_div4, r.beat_div16>>

FlushedBatches == [k \in 1..Len(flushed) |-> flushed[k].batch]

Delivered == Flatten(FlushedBatches)

EventTimes == [i \in 1..Len(events) |-> EventTime(i)]

TimeOrdered == \A i \in 1..Len(events), j \in 1..Len(events) :
                  i <= j => EventTime(i) <= EventTime(j)

\* C1: when play_midi has returned on a time-ordered event list, the
\* concatenation of all batches assigned to midi.events is the whole event
\* list (the trailing batch was flushed too).
C1_FinalFlush ==
    (pc = "done" /\ TimeOrdered) => Delivered = Iota(Len(events))

\* C2: for events due at 0, 0, 50 and 200 ms and clock samples 0, 60 and
\* 250 ms, the sink has received exactly the batches [e1,e2], [e3], [e4]
\* when play_midi returns.
C2_ExampleBatches ==
    (pc = "done" /\ EventTimes = <<0, 0, 50, 200>> /\ samples = {0, 60, 250})
        => FlushedBatches = << <<1, 2>>, <<3>>, <<4>> >>

\* C3: every event of a batch assigned to midi.events has its offset <= the
\* elapsed time at which the assignment was made.
C3_NeverEarly ==
    \A k \in 1..Len(flushed) :
        \A j \in 1..Len(flushed[k].batch) :
            EventTime(flushed[k].batch[j]) <= flushed[k].at

\* A batch of two events was assigned, one of them later than its offset.
C3_Witness ==
    \E k \in 1..Len(flushed) :
        /\ Len(flushed[k].batch) >= 2
        /\ \E j \in 1..Len(flushed[k].batch) :
               EventTime(flushed[k].batch[j]) < flushed[k].at

\* C4: the concatenation of the batches flushed so far is a prefix of the
\* event list, the flushed batches followed by the pending batch are exactly
\* the events consumed so far in original order, and for a time-ordered list
\* the offsets seen by the sink are non-decreasing.
C4_NoReorder ==
    /\ Len(Delivered) <= Len(events)
    /\ Delivered = Iota(Len(Delivered))
    /\ Delivered \o batch = Iota(idx)
    /\ TimeOrdered =>
          \A i \in 1..Len(Delivered), j \in 1..Len(Delivered) :
              i <= j => EventTime(Delivered[i]) <= EventTime(Delivered[j])

\* Two batches holding three or more events have been assigned.
C4_Witness == Len(flushed) >= 2 /\ Len(Delivered) >= 3

\* C5: no empty list is ever assigned to midi.events, and a loop iteration
\* that starts with an empty batch and does not consume the head event makes
\* no assignment to midi.events.
C5_NeverFlushEmpty ==
    /\ [](\A k \in 1..Len(flushed) : flushed[k].batch # <<>>)
    /\ [][(pc = "loop" /\ batch = <<>> /\ idx' = idx) => flushed' = flushed]_vars

\* A no-op iteration ran after a batch had been assigned.
C5_Witness == tick = "spin" /\ flushed # <<>> /\ batch = <<>> /\ idx < Len(events)

\* C6: once a cancellation request has been issued, the next step of the
\* dispatcher delivers no batch, consumes no event and ends the session.
C6_CancelStopsDelivery ==
    [][cancel => (flushed' = flushed /\ idx' = idx /\ pc' = "done")]_vars

\* C7: a clock sample that finds the head event in the future and follows
\* another such sample is preceded by a sleep/yield.
C7_YieldBetweenPolls ==
    [][(/\ tick \in {"flush", "spin"}
        /\ tick' \in {"flush", "spin"}
        /\ pc' = pc /\ cancel' = cancel) => yields' > yields]_vars

---------------------------------------------------------------------------
(* Properties of the time conversion and of termination *)

EncodableAt(i) == Encodable(events[i])

\* An iteration that finds the head event in the future with a non-empty
\* batch: the flush of line 20 is attempted.
FlushAttempted ==
    /\ pc = "loop" /\ idx < Len(events) /\ batch # <<>> /\ idx' = idx
    /\ pc' = "raised" \/ flushed' # flushed

\* C14: when a flush is attempted, the events of the batch that can be
\* encoded are delivered in order, the others are dropped, and the
\* dispatcher stays in its loop.
C14_EncodingFailureLocal ==
    [][FlushAttempted =>
        /\ pc' = "loop"
        /\ Len(flushed') = Len(flushed) + 1
        /\ flushed'[Len(flushed')].batch = SelectSeq(batch, EncodableAt)]_vars

\* The event examined by the latest loop iteration.
Examined == IF tick = "consume" THEN events[idx] ELSE events[idx + 1]

\* (measure-1)*numerator*16 + (beat-1)*16 + (beat_div4-1)*4 + (beat_div16-1)
ExaminedSixteenths ==
      (Examined.measure - 1) * time_signature.numerator * 16
    + (Examined.beat - 1) * 16
    + (Examined.beat_div4 - 1) * 4
    + (Examined.beat_div16 - 1)

---------------------------------------------------------------------------
(* Properties of get_midi_events *)

Ranks(r) == <<r.measure, r.beat, r.beat_div4, r.beat_div16>>

\* The running state before record k is applied.
Before(k) == IF k = 1 THEN <<1, 1, 1, 1>> ELSE Ranks(result[k - 1])

\* Rank r of record k is the highest rank whose field is present and differs
\* from the running value.
FirstChange(k, r) ==
    /\ Ranks(dsl[k])[r] # None
    /\ Ranks(dsl[k])[r] # Before(k)[r]
    /\ \A h \in 1..(r - 1) :
          Ranks(dsl[k])[h] = None \/ Ranks(dsl[k])[h] = Before(k)[h]

\* C9: when a field is present and differs from the running value it is
\* adopted, every higher rank keeps its running value, and every lower rank
\* is its own field when present and 1 otherwise; records
\* [{measure:2}, {beat:3}] resolve the second record to (2,3,1,1).
C9_ResetRule ==
    /\ \A k \in 1..Len(result) : \A r \in 1..4 :
          FirstChange(k, r) =>
            /\ Ranks(result[k])[r] = Ranks(dsl[k])[r]
            /\ \A h \in 1..(r - 1) : Ranks(result[k])[h] = Before(k)[h]
            /\ \A l \in (r + 1)..4 :
                  Ranks(result[k])[l] =
                    IF Ranks(dsl[k])[l] # None THEN Ranks(dsl[k])[l] ELSE 1
    /\ ( /\ Len(result) >= 2
         /\ Ranks(dsl[1]) = <<2, None, None, None>>
         /\ Ranks(dsl[2]) = <<None, 3, None, None>> )
           => Ranks(result[2]) = <<2, 3, 1, 1>>

\* Records [{measure:2}, {beat:3}] have both been resolved.
C9_Witness ==
    /\ Len(result) = 2
    /\ Ranks(dsl[1]) = <<2, None, None, None>>
    /\ Ranks(dsl[2]) = <<None, 3, None, None>>

\* C10: a rank whose field, like the fields of all higher ranks, is omitted
\* or equal to the running value keeps its running value; from running
\* state (2,3,2,1) the record {beat:3} resolves to (2,3,2,1).
C10_NoOpRule ==
    /\ \A k \in 1..Len(result) : \A r \in 1..4 :
          (\A h \in 1..r :
              Ranks(dsl[k])[h] = None \/ Ranks(dsl[k])[h] = Before(k)[h])
            => Ranks(result[k])[r] = Before(k)[r]
    /\ \A k \in 1..Len(result) :
          (Before(k) = <<2, 3, 2, 1>> /\ Ranks(dsl[k]) = <<None, 3, None, None>>)
            => Ranks(result[k]) = <<2, 3, 2, 1>>

\* The record {beat:3} has been resolved from running state (2,3,2,1).
C10_Witness ==
    \E k \in 1..Len(result) :
        Before(k) = <<2, 3, 2, 1>> /\ Ranks(dsl[k]) = <<None, 3, None, None>>

\* C11: every record resolved from a validated list has measure >= 1 and
\* beat, beat_div4, beat_div16 in 1..8; the output has one resolved record
\* per input record, in input order, with event and value unchanged.
C11_ResolvedInRange ==
    /\ Len(result) <= Len(dsl)
    /\ rpc = "done" => Len(result) = Len(dsl)
    /\ \A k \in 1..Len(result) :
          /\ result[k].measure >= 1
          /\ result[k].beat \in 1..8
          /\ result[k].beat_div4 \in 1..8
          /\ result[k].beat_div16 \in 1..8
          /\ result[k].event = dsl[k].event
          /\ result[k].value = dsl[k].value

\* Two records with different event and value have been resolved and
\* returned, the second after a change of measure with beat 8.
C11_Witness ==
    /\ rpc = "done" /\ Len(result) = 2
    /\ result[1].event # result[2].event /\ result[1].value # result[2].value
    /\ result[2].measure = 2 /\ result[2].beat = 8 /\ result[2].beat_div4 = 1

LexLeq(p, q) ==
    \/ p = q
    \/ \E r \in 1..4 : p[r] < q[r] /\ \A h \in 1..(r - 1) : p[h] = q[h]

\* C12: a list whose resolved positions go backwards is never resolved and
\* returned: every returned result is non-decreasing in
\* (measure, beat, beat_div4, beat_div16).
C12_BackwardsRejected ==
    rpc = "done" =>
        \A k \in 2..Len(result) : LexLeq(Ranks(result[k - 1]), Ranks(result[k]))

RECURSIVE ResolveList(_, _)
ResolveList(s, items) ==
    IF items = <<>> THEN <<>>
    ELSE LET q == Resolve(s, Head(items))
         IN <<MidiEvent(q.measure, q.beat, q.beat_div4, q.beat_div16,
                        Head(items).event, Head(items).value)>>
            \o ResolveList(q, Tail(items))

\* C13: when processing of a raw list has ended, the result is the
\* resolution of its in-range records, in order; an out-of-range record is
\* skipped and leaves the running state untouched.
C13_InvalidRecordSkipped ==
    rpc \in {"done", "error"} =>
        result = ResolveList([measure |-> 1, beat |-> 1, beat_div4 |-> 1,
                              beat_div16 |-> 1], SelectSeq(dsl, Valid))

---------------------------------------------------------------------------
(* Notebook MidiWidget: the change:notes handler, notebook.py 94-116 *)

MaxNotes == 2

\* line 105: const ch = 0
Channel == 0
\* line 106: const vel = 100
Velocity == 100
\* line 109: const delay = i * 250
StaggerMs == 250
\* line 112: setTimeout(..., 200)
HoldMs == 200

\* line 111: [0x90 | ch, note, vel]
NoteOn(note) == <<144 + Channel, note, Velocity>>
\* line 112: [0x80 | ch, note, 0]
NoteOff(note) == <<128 + Channel, note, 0>>

\* Note numbers played, and by how many ms a timer callback may run after the
\* time it was set for (setTimeout gives a least delay, not an exact one).
NoteValues == {60, 62}
Lateness == {0, 30, 60}

Timer(kind, i, due) == [kind |-> kind, i |-> i, due |-> due]

InitNotes ==
    /\ PlayIdle
    /\ ResolverIdle
    /\ WidgetIdle
    /\ notes \in SeqsUpTo(NoteValues, MaxNotes)
    /\ npc = "pending"
    /\ nb_output \in BOOLEAN
    /\ timers = {}
    /\ js_now = 0
    /\ note_sent = <<>>
    /\ nb_log = <<>>

\* lines 94-116: the change:notes handler
OnChangeNotes ==
    /\ npc = "pending"
    /\ npc' = "done"
    /\ IF notes = <<>>
       THEN UNCHANGED <<timers, nb_log>>
       ELSE IF ~nb_output
       THEN /\ nb_log' = nb_log \o <<LogEntry("Received notes", Len(notes), notes),
                                     LogEntry("No MIDI output selected.", 0, <<>>)>>
            /\ UNCHANGED timers
       ELSE /\ nb_log' = Append(nb_log, LogEntry("Received notes", Len(notes), notes))
            /\ timers' = {Timer("on", i, js_now + (i - 1) * StaggerMs) : i \in 1..Len(notes)}
    /\ UNCHANGED <<notes, nb_output, js_now, note_sent>>
    /\ UNCHANGED playVars
    /\ UNCHANGED resolveVars
    /\ UNCHANGED widgetVars

\* The waiting callback that is due first.
NextTimer == CHOOSE tm \in timers : \A o \in timers : tm.due <= o.due

\* lines 110-114: a note-on callback runs, `late` ms after it was due (or, if
\* that time has passed, after the callback before it)
FireNoteOn(late) ==
    /\ timers # {}
    /\ NextTimer.kind = "on"
    /\ LET tm == NextTimer
           at == (IF tm.due > js_now THEN tm.due ELSE js_now) + late
       IN /\ js_now' = at
          /\ note_sent' = Append(note_sent, [msg |-> NoteOn(notes[tm.i]), i |-> tm.i, at |-> at])
          /\ timers' = (timers \ {tm}) \cup {Timer("off", tm.i, at + HoldMs)}
          /\ nb_log' = Append(nb_log, LogEntry("Played note", notes[tm.i], <<>>))
    /\ UNCHANGED <<notes, npc, nb_output>>
    /\ UNCHANGED playVars
    /\ UNCHANGED resolveVars
    /\ UNCHANGED widgetVars

\* line 112: a note-off callback runs
FireNoteOff(late) ==
    /\ timers # {}
    /\ NextTimer.kind = "off"
    /\ LET tm == NextTimer
           at == (IF tm.due > js_now THEN tm.due ELSE js_now) + late
       IN /\ js_now' = at
          /\ note_sent' = Append(note_sent, [msg |-> NoteOff(notes[tm.i]), i |-> tm.i, at |-> at])
          /\ timers' = timers \ {tm}
    /\ UNCHANGED <<notes, npc, nb_output, nb_log>>
    /\ UNCHANGED playVars
    /\ UNCHANGED resolveVars
    /\ UNCHANGED widgetVars

NextNotes ==
    \/ OnChangeNotes
    \/ \E late \in Lateness : FireNoteOn(late)
    \/ \E late \in Lateness : FireNoteOff(late)

SpecNotes == InitNotes /\ [][NextNotes]_vars

---------------------------------------------------------------------------
(* Properties of the widget *)

\* The batches the front end has received so far.
Received == SubSeq(sync_out, 1, front_read)

NoOutputNotices ==
    Cardinality({k \in 1..Len(js_log) : js_log[k].kind = "No MIDI output selected."})

RECURSIVE ExpectedLog(_)
ExpectedLog(batches) ==
    IF batches = <<>> THEN <<>>
    ELSE <<LogEntry("Received", Len(Head(batches)), <<>>)>>
         \o [j \in 1..Len(Head(batches)) |->
               LogEntry("Sent MIDI", 1, Head(batches)[j])]
         \o ExpectedLog(Tail(batches))

\* Number of messages in the first k received batches.
RECURSIVE SentBefore(_)
SentBefore(k) == IF k = 0 THEN 0 ELSE SentBefore(k - 1) + Len(sync_out[k])

\* C18: with an output selected, the messages sent are those of the received
\* batches, each once and in order; every handler run leaves the events
\* queue empty and has sent exactly one clearing update, before the first
\* message of its batch was sent; the log holds one 'Received' entry per
\* batch and one 'Sent MIDI' entry per message, and nothing else.
C18_HandlerOnce ==
    output =>
        /\ sent = Flatten(Received)
        /\ js_events = <<>>
        /\ Len(sync_in) = front_read
        /\ \A k \in 1..Len(sync_in) :
              sync_in[k].events = <<>> /\ sync_in[k].after = SentBefore(k - 1)
        /\ js_log = ExpectedLog(Received)

\* A batch of two messages has been handled and its clearing update has
\* reached Python.
C18_Witness ==
    /\ output /\ front_read >= 1 /\ py_read >= 1
    /\ Len(sync_out[1]) = 2 /\ Len(sent) >= 2

FlushedPayloads ==
    [k \in 1..Len(flushed) |->
        [j \in 1..Len(flushed[k].batch) |-> Payload(events[flushed[k].batch[j]])]]

\* C20: once play_midi has returned and every update in flight has been
\* applied, the messages sent to the output are exactly those of the
\* flushed batches, each once and in order.
C20_EveryBatchOnce ==
    ( /\ output /\ pc = "done"
      /\ front_read = Len(sync_out) /\ py_read = Len(sync_in) )
        => sent = Flatten(FlushedPayloads)

---------------------------------------------------------------------------
(* Properties of the notebook widget *)

\* Positions in note_sent of the note-on / note-off messages of note i.
OnsOf(i) == {p \in 1..Len(note_sent) : note_sent[p].i = i /\ note_sent[p].msg[1] = 144 + Channel}
OffsOf(i) == {p \in 1..Len(note_sent) : note_sent[p].i = i /\ note_sent[p].msg[1] = 128 + Channel}

\* C19: with an output selected, the note-off of each note is sent after its
\* note-on and before the note-on of the next note of the list; each note
\* gets at most one note-on and one note-off, for the same note number; and
\* once no callback is waiting every note of the list has been switched on
\* and off again.
C19_AutoRelease ==
    (nb_output /\ npc = "done") =>
        /\ \A i \in 1..Len(notes) :
              /\ Cardinality(OnsOf(i)) <= 1 /\ Cardinality(OffsOf(i)) <= 1
              /\ \A q \in OffsOf(i) :
                    /\ note_sent[q].msg = NoteOff(notes[i])
                    /\ \E p \in OnsOf(i) : p < q
              /\ \A p \in OnsOf(i) : note_sent[p].msg = NoteOn(notes[i])
        /\ \A i \in 1..(Len(notes) - 1) :
              \A p \in OnsOf(i + 1) : \E q \in OffsOf(i) : q < p
        /\ timers = {} =>
              \A i \in 1..Len(notes) : OnsOf(i) # {} /\ OffsOf(i) # {}

---------------------------------------------------------------------------
(* Properties of positions and offsets together *)

\* The index in events of the event the latest iteration examined.
ExaminedIdx == IF tick = "consume" THEN idx ELSE idx + 1

\* C21: when the event the dispatcher examined is at or before a later event
\* of the list in (measure, beat, beat_div4, beat_div16) order, its offset is
\* at most that event's offset; so no event behind the head is already due
\* while the head is not.
C21_PositionOrderIsTimeOrder ==
    tick # "none" =>
        \A j \in (ExaminedIdx + 1)..Len(events) :
            LexLeq(Ranks(Examined), Ranks(events[j]))
                => /\ event_time <= EventTime(j)
                   /\ tick # "consume" => ~Due(EventTime(j), Elapsed(now))

---------------------------------------------------------------------------
(* Idempotence and prefix stability of get_midi_events *)

\* The running state at the entry of get_midi_events (lines 77-80).
InitialRunning == [measure |-> 1, beat |-> 1, beat_div4 |-> 1, beat_div16 |-> 1]

FullySpecified(item) ==
    /\ item.measure # None /\ item.beat # None
    /\ item.beat_div4 # None /\ item.beat_div16 # None

\* C22: a processed record with all four timing fields present resolved to
\* exactly those four values; the resolved list, read as fully specified
\* sparse records, resolves to itself; and the list resolved so far is the
\* resolution of the records read so far and is only ever extended.
C22_IdempotentPrefixStable ==
    /\ [](\A k \in 1..Len(result) :
            FullySpecified(dsl[k]) => Ranks(result[k]) = Ranks(dsl[k]))
    /\ [](ResolveList(InitialRunning, result) = result)
    /\ [](result = ResolveList(InitialRunning, SubSeq(dsl, 1, Len(result))))
    /\ [][result = SubSeq(result', 1, Len(result))]_vars

\* A list was resolved whose second record is fully specified, changes the
\* measure and sets every lower rank away from 1, after a first record that
\* left fields out.
C22_Witness ==
    /\ rpc = "done" /\ Len(result) = 2
    /\ ~FullySpecified(dsl[1])
    /\ FullySpecified(dsl[2])
    /\ Ranks(result[1])[1] # Ranks(result[2])[1]
    /\ \A r \in 2..4 : Ranks(result[2])[r] # 1

===========================================================================
